---- MODULE Spec2Model ----
(***************************************************************************)
(* Matchmaking and relay core of src/server.js: the waiting queue, the     *)
(* partners map, the per-socket bot-fallback timers and the handlers of    *)
(* the socket events find, leave, message and disconnect.                  *)
(*                                                                         *)
(* Node runs every handler and every timer callback to completion, so one  *)
(* action is one whole handler.  socket.io removes a socket from           *)
(* io.sockets.sockets and clears socket.connected before it emits          *)
(* 'disconnect', in the same synchronous step, so Disconnect closes the    *)
(* transport and runs the handler at once.                                 *)
(***************************************************************************)
EXTENDS Integers, Sequences, FiniteSets, TLC

\* ---------------------------------------------------------------- bounds
NumSockets == 3      \* socket ids are 1..NumSockets, handed out in order
MaxTimers == 2       \* pending timers (bot fallback and bot reply), all sockets

\* ------------------------------------------------------------- constants
BOT == 0             \* the sentinel 'bot' stored in the partners map
ENABLE_BOT_FALLBACK == TRUE

SocketIds == 1..NumSockets
\* A chat text is a sequence of string pieces, so that the template literal of
\* the bot reply is a concatenation.
Texts == {<<"hello">>}
MoreTexts == Texts \cup {<<"bye">>}
\* The handshake payloads are opaque values.
Sdps == {"sdp-a", "sdp-b"}
Candidates == {"candidate-a", "candidate-b"}
Greeting == <<"Hi - I'm a bot while you wait. Try 'New' to find a human.">>
\* Mutant: a canned reply that leaves the submitted text out.
BotHeardCanned(text) == <<"Bot: I heard you.">>

BotHeard(text) == <<"Bot: I heard \"">> \o text \o <<"\".">>

VARIABLES
  created,       \* how many connections were ever accepted (ids 1..created)
  sockets,       \* io.sockets.sockets: the ids whose socket is connected
  closing,       \* closed sockets whose 'disconnect' handler has yet to run
                 \* (always empty where closing and handling are one step)
  waitingQueue,  \* let waitingQueue = []
  partners,      \* const partners = new Map(): socket id -> socket id or BOT
  botTimers,     \* pending 15 s timers in expiry order; ref = socket.botTimeout
                 \* still names this timer
  replyTimers,   \* pending 700 ms bot reply timers in expiry order
  last,          \* the event whose handler ran last
  emits          \* what that handler emitted, in order

vars == <<created, sockets, closing, waitingQueue, partners, botTimers, replyTimers,
          last, emits>>

\* ------------------------------------------------------------ Map, Array
has(m, k) == k \in DOMAIN m
get(m, k) == m[k]
set(m, k, v) == [x \in DOMAIN m \cup {k} |-> IF x = k THEN v ELSE m[x]]
delete(m, k) == [x \in DOMAIN m \ {k} |-> m[x]]
EmptyMap == [x \in {} |-> BOT]

includes(q, id) == \E i \in 1..Len(q) : q[i] = id
filter(q, id) == SelectSeq(q, LAMBDA x : x # id)

\* otherSocket && otherSocket.connected
connected(id) == id \in sockets

\* ---------------------------------------------------------------- events
Status(to, msg) == [to |-> to, ev |-> "status", p |-> [msg |-> msg]]
Retry(to) == [to |-> to, ev |-> "retry", p |-> <<>>]
Paired(to, partnerId) == [to |-> to, ev |-> "paired", p |-> [partnerId |-> partnerId]]
PairedBot(to) == [to |-> to, ev |-> "paired", p |-> [partnerId |-> BOT, bot |-> TRUE]]
PartnerLeft(to) == [to |-> to, ev |-> "partner-left", p |-> <<>>]
ChatMessage(to, from, text) == [to |-> to, ev |-> "message", p |-> [from |-> from, text |-> text]]

WebrtcOffer(to, from, sdp) ==
  [to |-> to, ev |-> "webrtc-offer", p |-> [from |-> from, sdp |-> sdp]]
WebrtcAnswer(to, from, sdp) ==
  [to |-> to, ev |-> "webrtc-answer", p |-> [from |-> from, sdp |-> sdp]]
WebrtcIceCandidate(to, from, candidate) ==
  [to |-> to, ev |-> "webrtc-ice-candidate",
   p |-> [from |-> from, candidate |-> candidate]]
Typing(to, isTyping) == [to |-> to, ev |-> "typing", p |-> isTyping]

Event(o, h) == [op |-> o, h |-> h]
\* A signaling or typing event, with the payload the client sent.
RelayEvent(o, h, payload) == [op |-> o, h |-> h, payload |-> payload]

\* ------------------------------------------------------------ connection
Connect ==
  /\ created < NumSockets
  /\ created' = created + 1
  /\ sockets' = sockets \cup {created + 1}
  /\ last' = Event("connection", created + 1)
  /\ emits' = <<>>
  /\ UNCHANGED <<closing, waitingQueue, partners, botTimers, replyTimers>>

\* ------------------------------------------------------------------ find
\* Mutant: only a human partner counts as "already connected".
alreadyConnectedHumanOnly(h) == has(partners, h) /\ get(partners, h) # BOT

\* if (partners.has(socket.id)) { status; return }
alreadyConnected(h) == has(partners, h)

\* Mutant: off by one, waitingQueue.length > 1.
queueHasWaiterOffByOne(q) == Len(q) > 1

\* if (waitingQueue.length > 0)
queueHasWaiter(q) == Len(q) > 0

\* Mutant: the head is read (waitingQueue[0]) but not removed.
shiftPeek(q) == q

\* const otherId = waitingQueue.shift()
shift(q) == Tail(q)

\* Mutant: the second partners.set is missing.
pairSocketsOneWay(s1, s2) == set(partners, s1, s2)

\* partners.set(s1.id, s2.id); partners.set(s2.id, s1.id)
pairSockets(s1, s2) == set(set(partners, s1, s2), s2, s1)

\* Mutant: each side is told its own id.
pairedEmitsOwnId(s1, s2) == <<Paired(s1, s1), Paired(s2, s2)>>

\* s1.emit('paired', {partnerId: s2.id}); s2.emit('paired', {partnerId: s1.id})
pairedEmits(s1, s2) == <<Paired(s1, s2), Paired(s2, s1)>>

\* socket.botTimeout = setTimeout(..., 15000): the new timer expires after
\* every pending one, and socket.botTimeout no longer names an older one.
setBotTimeout(h) ==
  Append([i \in 1..Len(botTimers) |->
            IF botTimers[i].sock = h
              THEN [botTimers[i] EXCEPT !.ref = FALSE]
              ELSE botTimers[i]],
         [sock |-> h, ref |-> TRUE])

Find(h) ==
  /\ connected(h)
  /\ last' = Event("find", h)
  /\ IF alreadyConnected(h)
       THEN /\ emits' = <<Status(h, "Already connected")>>
            /\ UNCHANGED <<waitingQueue, partners, botTimers>>
       ELSE IF queueHasWaiter(waitingQueue)
         THEN LET otherId == Head(waitingQueue) IN
              /\ waitingQueue' = shift(waitingQueue)
              /\ IF connected(otherId)
                   THEN /\ partners' = pairSockets(h, otherId)
                        /\ emits' = pairedEmits(h, otherId)
                   ELSE /\ partners' = partners
                        /\ emits' = <<Status(h, "Candidate disconnected; retrying..."),
                                      Retry(h)>>
              /\ UNCHANGED botTimers
         ELSE /\ Len(botTimers) + Len(replyTimers) < MaxTimers
              /\ waitingQueue' = Append(waitingQueue, h)
              /\ emits' = <<Status(h, "Waiting for a partner...")>>
              /\ botTimers' = IF ENABLE_BOT_FALLBACK THEN setBotTimeout(h)
                                                     ELSE botTimers
              /\ UNCHANGED partners
  /\ UNCHANGED <<created, sockets, closing, replyTimers>>

\* ------------------------------------------------- bot-fallback callback
\* Mutant: the callback does not look at the queue again.
botTimeoutAppliesNoQueueCheck(h) == ~has(partners, h)

\* if (waitingQueue.includes(socket.id) && !partners.has(socket.id))
botTimeoutApplies(h) == includes(waitingQueue, h) /\ ~has(partners, h)

\* Mutant: the greeting is not sent.
botPairedEmitsNoGreeting(h) == <<PairedBot(h)>>

\* socket.emit('paired', {partnerId:'bot', bot:true}); socket.emit('message', ...)
botPairedEmits(h) == <<PairedBot(h), ChatMessage(h, "bot", Greeting)>>

BotTimeout ==
  /\ Len(botTimers) > 0
  /\ LET h == Head(botTimers).sock IN
     /\ last' = Event("botTimeout", h)
     /\ IF botTimeoutApplies(h)
          THEN /\ waitingQueue' = filter(waitingQueue, h)
               /\ partners' = set(partners, h, BOT)
               /\ emits' = botPairedEmits(h)
          ELSE /\ emits' = <<>>
               /\ UNCHANGED <<waitingQueue, partners>>
  /\ botTimers' = Tail(botTimers)
  /\ UNCHANGED <<created, sockets, closing, replyTimers>>

\* ----------------------------------------------------------------- leave
\* Mutant: partners.delete(partnerId) is missing.
leavePartnersOwnOnly(h, partnerId) == delete(partners, h)

\* the live-partner branch and the final partners.delete(socket.id)
leavePartners(h, partnerId) ==
  IF connected(partnerId)
    THEN delete(delete(partners, partnerId), h)
    ELSE delete(partners, h)

leaveEmits(h, partnerId) ==
  IF connected(partnerId)
    THEN <<Status(partnerId, "Partner left the chat."), PartnerLeft(partnerId),
           Status(h, "You left the chat.")>>
    ELSE <<Status(h, "You left the chat.")>>

Leave(h) ==
  /\ connected(h)
  /\ last' = Event("leave", h)
  /\ IF has(partners, h) /\ get(partners, h) = BOT
       THEN /\ partners' = delete(partners, h)
            /\ emits' = <<Status(h, "Left bot conversation.")>>
            /\ UNCHANGED waitingQueue
       ELSE IF ~has(partners, h)
         THEN /\ waitingQueue' = filter(waitingQueue, h)
              /\ emits' = <<Status(h, "Stopped waiting.")>>
              /\ UNCHANGED partners
         ELSE /\ partners' = leavePartners(h, get(partners, h))
              /\ emits' = leaveEmits(h, get(partners, h))
              /\ UNCHANGED waitingQueue
  /\ UNCHANGED <<created, sockets, closing, botTimers, replyTimers>>

\* ------------------------------------------------------------ disconnect
\* if (socket.botTimeout) clearTimeout(socket.botTimeout)
clearTimeout(h) == SelectSeq(botTimers, LAMBDA t : ~(t.sock = h /\ t.ref))

\* Mutant: the final partners.delete(socket.id) is missing.
disconnectPartnersKeepOwn(h) ==
  IF ~has(partners, h) THEN partners
  ELSE IF get(partners, h) = BOT THEN delete(partners, h)
  ELSE IF get(partners, h) \in sockets \ {h}
    THEN delete(partners, get(partners, h))
    ELSE partners

\* Mutant: partners.delete(partnerId) is missing.
disconnectPartnersOwnOnly(h) == delete(partners, h)

\* The handler runs with socket h already out of io.sockets.sockets.
disconnectPartners(h) ==
  IF ~has(partners, h) THEN partners
  ELSE IF get(partners, h) = BOT THEN delete(partners, h)
  ELSE IF get(partners, h) \in sockets \ {h}
    THEN delete(delete(partners, get(partners, h)), h)
    ELSE delete(partners, h)

disconnectEmits(h) ==
  IF has(partners, h) /\ get(partners, h) \in sockets \ {h}
    THEN <<Status(get(partners, h), "Partner disconnected."),
           PartnerLeft(get(partners, h))>>
    ELSE <<>>

onDisconnect(h) ==
  /\ botTimers' = clearTimeout(h)
  /\ waitingQueue' = filter(waitingQueue, h)
  /\ partners' = disconnectPartners(h)
  /\ emits' = disconnectEmits(h)
  /\ UNCHANGED <<created, replyTimers>>

\* The transport of h closes: socket.io drops the socket and emits 'disconnect'.
Disconnect(h) ==
  /\ connected(h)
  /\ sockets' = sockets \ {h}
  /\ closing' = closing
  /\ last' = Event("disconnect", h)
  /\ onDisconnect(h)

\* The 'disconnect' handler of a socket that is already closed runs once more.
DisconnectAgain(h) ==
  /\ h \in 1..created
  /\ ~connected(h)
  /\ h \notin closing
  /\ UNCHANGED <<sockets, closing>>
  /\ last' = Event("disconnect again", h)
  /\ onDisconnect(h)

\* The transport of h closes and the socket is seen as not connected before
\* its 'disconnect' handler runs.
Close(h) ==
  /\ connected(h)
  /\ sockets' = sockets \ {h}
  /\ closing' = closing \cup {h}
  /\ last' = Event("close", h)
  /\ emits' = <<>>
  /\ UNCHANGED <<created, waitingQueue, partners, botTimers, replyTimers>>

\* The 'disconnect' handler of a socket closed earlier.
HandleDisconnect(h) ==
  /\ h \in closing
  /\ closing' = closing \ {h}
  /\ sockets' = sockets
  /\ last' = Event("disconnect", h)
  /\ onDisconnect(h)

\* --------------------------------------------------------------- message
\* Mutant: only the caller's own entry is deleted.
cleanupPartnerOwnOnly(socketId) == delete(partners, socketId)

cleanupPartner(socketId) ==
  IF ~has(partners, socketId) THEN partners
  ELSE IF get(partners, socketId) # BOT
    THEN delete(delete(partners, get(partners, socketId)), socketId)
    ELSE delete(partners, socketId)

Message(h, text) ==
  /\ connected(h)
  /\ last' = Event("message", h)
  /\ IF ~has(partners, h)
       THEN /\ emits' = <<Status(h, "No partner to send to.")>>
            /\ UNCHANGED <<partners, replyTimers>>
       ELSE IF get(partners, h) = BOT
         THEN /\ Len(botTimers) + Len(replyTimers) < MaxTimers
              /\ replyTimers' = Append(replyTimers, [sock |-> h, text |-> text])
              /\ emits' = <<>>
              /\ UNCHANGED partners
         ELSE IF connected(get(partners, h))
           THEN /\ emits' = <<ChatMessage(get(partners, h), "stranger", text),
                              ChatMessage(h, "you", text)>>
                /\ UNCHANGED <<partners, replyTimers>>
           ELSE /\ emits' = <<Status(h, "Partner disconnected.")>>
                /\ partners' = cleanupPartner(h)
                /\ UNCHANGED replyTimers
  /\ UNCHANGED <<created, sockets, closing, waitingQueue, botTimers>>

\* The 700 ms timer of a message to the bot expires; a closed socket drops
\* what is emitted on it.
BotReply ==
  /\ Len(replyTimers) > 0
  /\ LET t == Head(replyTimers) IN
     /\ last' = Event("botReply", t.sock)
     /\ emits' = IF connected(t.sock)
                   THEN <<ChatMessage(t.sock, "bot", BotHeard(t.text))>>
                   ELSE <<>>
  /\ replyTimers' = Tail(replyTimers)
  /\ UNCHANGED <<created, sockets, closing, waitingQueue, partners, botTimers>>

\* ------------------------------------------------------------- signaling
\* Mutant: the offer goes to every other connected socket (a broadcast).
offerEmitsBroadcast(h, payload) ==
  IF ~has(partners, h) \/ get(partners, h) = BOT THEN <<>>
  ELSE IF connected(get(partners, h))
    THEN LET others == sockets \ {h}
             RECURSIVE toAll(_)
             toAll(S) == IF S = {} THEN <<>>
                         ELSE LET x == CHOOSE y \in S : TRUE IN
                              <<WebrtcOffer(x, h, payload.sdp)>> \o toAll(S \ {x})
         IN toAll(others)
    ELSE <<Status(h, "Partner disconnected (during offer).")>>

offerEmits(h, payload) ==
  IF ~has(partners, h) \/ get(partners, h) = BOT THEN <<>>
  ELSE IF connected(get(partners, h))
    THEN <<WebrtcOffer(get(partners, h), h, payload.sdp)>>
    ELSE <<Status(h, "Partner disconnected (during offer).")>>

Offer(h, payload) ==
  /\ connected(h)
  /\ last' = RelayEvent("webrtc-offer", h, payload)
  /\ emits' = offerEmits(h, payload)
  /\ UNCHANGED <<created, sockets, closing, waitingQueue, partners, botTimers,
                 replyTimers>>

\* io.sockets.sockets.get(payload.to): the target the client names.
answerEmits(h, payload) ==
  IF connected(payload.to)
    THEN <<WebrtcAnswer(payload.to, h, payload.sdp)>>
    ELSE <<>>

Answer(h, payload) ==
  /\ connected(h)
  /\ last' = RelayEvent("webrtc-answer", h, payload)
  /\ emits' = answerEmits(h, payload)
  /\ UNCHANGED <<created, sockets, closing, waitingQueue, partners, botTimers,
                 replyTimers>>

\* Mutant: the candidate is replaced by the candidate's field of the same
\* name read from the wrong object (always the first candidate).
iceCandidateEmitsWrongValue(h, payload) ==
  IF ~has(partners, h) \/ get(partners, h) = BOT THEN <<>>
  ELSE IF connected(get(partners, h))
    THEN <<WebrtcIceCandidate(get(partners, h), h, "candidate-a")>>
    ELSE <<>>

iceCandidateEmits(h, payload) ==
  IF ~has(partners, h) \/ get(partners, h) = BOT THEN <<>>
  ELSE IF connected(get(partners, h))
    THEN <<WebrtcIceCandidate(get(partners, h), h, payload.candidate)>>
    ELSE <<>>

IceCandidate(h, payload) ==
  /\ connected(h)
  /\ last' = RelayEvent("webrtc-ice-candidate", h, payload)
  /\ emits' = iceCandidateEmits(h, payload)
  /\ UNCHANGED <<created, sockets, closing, waitingQueue, partners, botTimers,
                 replyTimers>>

typingEmits(h, isTyping) ==
  IF ~has(partners, h) \/ get(partners, h) = BOT THEN <<>>
  ELSE IF connected(get(partners, h))
    THEN <<Typing(get(partners, h), isTyping)>>
    ELSE <<>>

TypingEvent(h, isTyping) ==
  /\ connected(h)
  /\ last' = RelayEvent("typing", h, isTyping)
  /\ emits' = typingEmits(h, isTyping)
  /\ UNCHANGED <<created, sockets, closing, waitingQueue, partners, botTimers,
                 replyTimers>>

Init ==
  /\ created = 0
  /\ sockets = {}
  /\ closing = {}
  /\ waitingQueue = <<>>
  /\ partners = EmptyMap
  /\ botTimers = <<>>
  /\ replyTimers = <<>>
  /\ last = Event("listen", 0)
  /\ emits = <<>>

Next ==
  \/ Connect
  \/ \E h \in SocketIds : Find(h)
  \/ BotTimeout
  \/ \E h \in SocketIds : Leave(h)
  \/ \E h \in SocketIds : Disconnect(h)
  \/ \E h \in SocketIds : DisconnectAgain(h)
  \/ \E h \in SocketIds, text \in Texts : Message(h, text)
  \/ BotReply

Spec == Init /\ [][Next]_vars

\* Node fires every timer that stays pending: the expired bot-fallback
\* callback at the head of the list does run.
LiveSpec == Spec /\ WF_vars(BotTimeout)

\* The pairing core with a second chat text.  Node fires the 700 ms reply
\* timer as it fires the 15 s one.
ChatNext ==
  \/ Next
  \/ \E h \in SocketIds, text \in MoreTexts : Message(h, text)

ChatSpec ==
  Init /\ [][ChatNext]_vars /\ WF_vars(BotTimeout) /\ WF_vars(BotReply)

\* The pairing core where a closed transport can be observed before its
\* 'disconnect' handler has run: the setting the liveness re-checks of find,
\* leave, message and the relay are written for.
StaleNext ==
  \/ Next
  \/ \E h \in SocketIds : Close(h)
  \/ \E h \in SocketIds : HandleDisconnect(h)

StaleSpec == Init /\ [][StaleNext]_vars

\* The pairing core together with the signaling and typing relay.
RelayNext ==
  \/ ChatNext
  \/ \E h \in SocketIds, sdp \in Sdps : Offer(h, [sdp |-> sdp])
  \/ \E h \in SocketIds, to \in SocketIds, sdp \in Sdps :
       Answer(h, [to |-> to, sdp |-> sdp])
  \/ \E h \in SocketIds, c \in Candidates : IceCandidate(h, [candidate |-> c])
  \/ \E h \in SocketIds, b \in BOOLEAN : TypingEvent(h, b)

RelaySpec == Init /\ [][RelayNext]_vars

\* ================================================================ claims
\* C1: directory symmetry.  Between handler executions, if partners[a] = b
\* and b is not the bot sentinel, then partners[b] = a.
DirectorySymmetry ==
  \A a \in DOMAIN partners :
    partners[a] # BOT =>
      /\ has(partners, partners[a])
      /\ partners[partners[a]] = a

\* A pair of two distinct sockets stands right after another socket's leave
\* or disconnect was handled.
DirectorySymmetryWitness ==
  /\ last.op \in {"leave", "disconnect"}
  /\ \E a \in DOMAIN partners : partners[a] \notin {BOT, a, last.h}

\* C2: no socket is both in waitingQueue and a key of partners, and no socket
\* is in waitingQueue twice.
WaitingXorPaired ==
  /\ \A i \in 1..Len(waitingQueue) : ~has(partners, waitingQueue[i])
  /\ \A i, j \in 1..Len(waitingQueue) :
       i # j => waitingQueue[i] # waitingQueue[j]

\* A socket that was waiting has just been matched by another socket's find:
\* it left the queue as it entered the directory.
WaitingXorPairedWitness ==
  /\ last.op = "find"
  /\ has(partners, last.h)
  /\ get(partners, last.h) \notin {BOT, last.h}
  /\ emits = pairedEmits(last.h, get(partners, last.h))

\* C3: a pairing joins two distinct sockets: no socket is its own partner and
\* no socket receives 'paired' carrying its own id.
NoSelfPairing ==
  /\ \A h \in DOMAIN partners : partners[h] # h
  /\ \A i \in 1..Len(emits) :
       emits[i].ev = "paired" => emits[i].p.partnerId # emits[i].to

\* C4: at most one bot-fallback timer is pending for any socket.
AtMostOneBotTimer ==
  \A h \in SocketIds :
    Cardinality({i \in 1..Len(botTimers) : botTimers[i].sock = h}) <= 1

\* C5: a socket that is not in waitingQueue has no pending bot-fallback timer.
NoTimerOutsideQueue ==
  \A i \in 1..Len(botTimers) : includes(waitingQueue, botTimers[i].sock)

\* C6: find by an unpaired socket h while the head p of the queue is live
\* removes p from the queue, sets partners[h] = p and partners[p] = h, sends
\* 'paired' to each with the other's id, and does not enqueue h.
MatchTakesOldestWaiter ==
  [][\A h \in SocketIds :
       (/\ last' = Event("find", h)
        /\ ~has(partners, h)
        /\ Len(waitingQueue) > 0
        /\ connected(Head(waitingQueue)))
       => LET p == Head(waitingQueue) IN
          /\ waitingQueue' = Tail(waitingQueue)
          /\ has(partners', h) /\ partners'[h] = p
          /\ has(partners', p) /\ partners'[p] = h
          /\ emits' = <<Paired(h, p), Paired(p, h)>>
          /\ ~includes(waitingQueue', h)]_vars

\* Socket 1 then socket 2 called find: they are paired and the queue is empty.
MatchTakesOldestWaiterWitness ==
  /\ last = Event("find", 2)
  /\ has(partners, 1) /\ partners[1] = 2
  /\ has(partners, 2) /\ partners[2] = 1
  /\ emits = <<Paired(2, 1), Paired(1, 2)>>
  /\ waitingQueue = <<>>

\* find by h found the queue empty and enqueued h.
JustEnqueued(h) ==
  /\ last = Event("find", h)
  /\ emits = <<Status(h, "Waiting for a partner...")>>

\* The bot-fallback callback of h has just paired h with the bot.
BotPairedNow(h) ==
  /\ last = Event("botTimeout", h)
  /\ ~includes(waitingQueue, h)
  /\ has(partners, h) /\ partners[h] = BOT
  /\ emits = <<PairedBot(h), ChatMessage(h, "bot", Greeting)>>

\* A find, leave or disconnect was handled after that find.
Intervened(h) ==
  /\ last.op \in {"find", "leave", "disconnect"}
  /\ ~JustEnqueued(h)

\* C7: once h was enqueued by find on an empty queue, either a find, leave or
\* disconnect intervenes, or the timer fires: h leaves the queue, gets
\* partners[h] = BOT and receives 'paired' {bot} followed by the greeting.
BotFallbackLiveness ==
  \A h \in SocketIds : JustEnqueued(h) ~> (BotPairedNow(h) \/ Intervened(h))

BotFallbackLivenessWitness == \E h \in SocketIds : BotPairedNow(h)

\* C8: leave by a, whose partner is the human b, sends b a status and
\* 'partner-left', removes both directory entries, leaves neither in the
\* queue, and a find by b right after is not rejected: b is enqueued or matched.
LeaveTearsDownPair ==
  [][/\ \A a \in SocketIds :
          (last' = Event("leave", a) /\ has(partners, a) /\ partners[a] # BOT)
          => LET b == partners[a] IN
             /\ \E i \in 1..Len(emits') : emits'[i] = Status(b, "Partner left the chat.")
             /\ \E i \in 1..Len(emits') : emits'[i] = PartnerLeft(b)
             /\ ~has(partners', a) /\ ~has(partners', b)
             /\ ~includes(waitingQueue', a) /\ ~includes(waitingQueue', b)
     /\ \A b \in SocketIds :
          (/\ last.op = "leave"
           /\ \E i \in 1..Len(emits) : emits[i] = PartnerLeft(b)
           /\ last' = Event("find", b))
          => /\ emits' # <<Status(b, "Already connected")>>
             /\ includes(waitingQueue', b) \/ has(partners', b)]_vars

\* b was just told that its partner a, another socket, left.
LeaveTearsDownPairWitness ==
  /\ last.op = "leave"
  /\ \E b \in SocketIds \ {last.h} :
       /\ emits = <<Status(b, "Partner left the chat."), PartnerLeft(b),
                    Status(last.h, "You left the chat.")>>
       /\ ~has(partners, b) /\ ~has(partners, last.h)

\* C9: disconnect of a, whose partner is the human b, sends b a status and
\* 'partner-left' and removes both directory entries; a second run of a's
\* disconnect handler changes nothing and emits nothing.
DisconnectTearsDownOnce ==
  [][/\ \A a \in SocketIds :
          (/\ last' = Event("disconnect", a)
           /\ has(partners, a) /\ partners[a] \notin {BOT, a})
          => LET b == partners[a] IN
             /\ emits' = <<Status(b, "Partner disconnected."), PartnerLeft(b)>>
             /\ ~has(partners', a) /\ ~has(partners', b)
     /\ \A a \in SocketIds :
          last' = Event("disconnect again", a)
          => /\ emits' = <<>>
             /\ UNCHANGED <<created, sockets, waitingQueue, partners,
                            botTimers, replyTimers>>]_vars

\* The disconnect handler of a closed socket has run a second time.
DisconnectTearsDownOnceWitness ==
  /\ last.op = "disconnect again"
  /\ ~connected(last.h)
  /\ emits = <<>>

\* C10: find by a socket that has a directory entry (human or bot) sends it
\* one status message and leaves queue, directory and timers as they were.
FindWhilePairedRejected ==
  [][\A h \in SocketIds :
       (last' = Event("find", h) /\ has(partners, h))
       => /\ emits' = <<Status(h, "Already connected")>>
          /\ UNCHANGED <<waitingQueue, partners, botTimers, replyTimers>>]_vars

\* A bot-paired socket was just refused.
FindWhilePairedRejectedWitness ==
  /\ last.op = "find"
  /\ has(partners, last.h) /\ partners[last.h] = BOT
  /\ emits = <<Status(last.h, "Already connected")>>

\* C15: no waiter is claimed twice.  No socket is the directory value of two
\* distinct sockets, and a find by an unpaired socket ends with that socket
\* enqueued or paired with the socket that was the head of the queue.
NoDoubleClaim ==
  [][/\ \A a, b \in DOMAIN partners' :
          (a # b /\ partners'[a] # BOT) => partners'[a] # partners'[b]
     /\ \A h \in SocketIds :
          (last' = Event("find", h) /\ ~has(partners, h))
          => \/ includes(waitingQueue', h) /\ ~has(partners', h)
             \/ /\ Len(waitingQueue) > 0
                /\ has(partners', h) /\ partners'[h] = Head(waitingQueue)
                /\ ~includes(waitingQueue', h)]_vars

\* Socket 1 waited, socket 2 took it, and socket 3, which called find last,
\* is enqueued instead.
NoDoubleClaimWitness ==
  /\ last = Event("find", 3)
  /\ waitingQueue = <<3>>
  /\ has(partners, 1) /\ partners[1] = 2
  /\ has(partners, 2) /\ partners[2] = 1
  /\ ~has(partners, 3)

\* C16: a bot-fallback timer that fires for a socket that is no longer in
\* waitingQueue, or that has a directory entry, changes neither queue nor
\* directory nor any other timer and emits nothing.
StaleTimerIsNoOp ==
  [][\A h \in SocketIds :
       (/\ last' = Event("botTimeout", h)
        /\ Len(botTimers) > 0 /\ Head(botTimers).sock = h
        /\ ~includes(waitingQueue, h) \/ has(partners, h))
       => /\ emits' = <<>>
          /\ botTimers' = Tail(botTimers)
          /\ UNCHANGED <<created, sockets, waitingQueue, partners,
                         replyTimers>>]_vars

\* The timer of a socket that is connected, and was matched or left since,
\* has just fired.
StaleTimerIsNoOpWitness ==
  /\ last.op = "botTimeout"
  /\ connected(last.h)
  /\ emits = <<>>

\* C17: the timer that moves h from the queue to a bot pairing is the one
\* the find of h's current wait scheduled, the one socket.botTimeout names.
BotPairedByCurrentTimerOnly ==
  [][\A h \in SocketIds :
       (/\ last' = Event("botTimeout", h)
        /\ Len(botTimers) > 0
        /\ ~has(partners, h) /\ has(partners', h))
       => Head(botTimers).ref]_vars

\* C18: a socket whose disconnect handler has run is neither in the queue nor
\* a key nor a value of the directory; every queued socket is live and find
\* never emits 'retry'.
ClosedSocketsPurged ==
  /\ \A h \in (1..created) \ (sockets \cup closing) :
       /\ ~includes(waitingQueue, h)
       /\ ~has(partners, h)
       /\ \A a \in DOMAIN partners : partners[a] # h
  /\ \A i \in 1..Len(waitingQueue) : connected(waitingQueue[i])
  /\ \A i \in 1..Len(emits) : emits[i].ev # "retry"

\* A socket that had a human partner has just disconnected.
ClosedSocketsPurgedWitness ==
  /\ last.op = "disconnect"
  /\ Len(emits) = 2
  /\ emits[2].ev = "partner-left"

\* C20: the waiting queue never holds more than one socket.
QueueAtMostOne == Len(waitingQueue) <= 1

\* A socket called find while another was waiting and the queue is empty again.
QueueAtMostOneWitness ==
  /\ last.op = "find"
  /\ waitingQueue = <<>>
  /\ Len(emits) = 2 /\ emits[1].ev = "paired"
  /\ emits[1].to # emits[2].to

\* The events the relay forwards.
RelayedKinds == {"webrtc-offer", "webrtc-ice-candidate", "typing", "message"}

\* C11: an offer, ICE candidate, chat message or typing event sent by h is
\* delivered to the socket recorded as partners[h] and to no other; a chat
\* message is also echoed to h tagged "you" while the partner's copy is tagged
\* "stranger"; with no entry or a bot entry, offer, ICE candidate and typing
\* are delivered to nobody.
RelayConfinement ==
  [][\A h \in SocketIds :
       (last'.op \in RelayedKinds /\ last'.h = h)
       => /\ \A i \in 1..Len(emits') :
               LET e == emits'[i] IN
               e.ev \in RelayedKinds
               => \/ /\ has(partners, h) /\ e.to = partners[h]
                     /\ e.ev = last'.op
                     /\ e.ev = "message" => e.p.from = "stranger"
                  \/ e.ev = "message" /\ e.to = h /\ e.p.from = "you"
          /\ (last'.op # "message" /\ (~has(partners, h) \/ partners[h] = BOT))
             => emits' = <<>>
          /\ (/\ last'.op = "message" /\ has(partners, h)
              /\ partners[h] \notin {BOT, h})
             => /\ Len(emits') = 2
                /\ emits'[1].to = partners[h] /\ emits'[1].p.from = "stranger"
                /\ emits'[2].to = h /\ emits'[2].p.from = "you"
                /\ emits'[1].p.text = emits'[2].p.text]_vars

\* Socket 1 sent an offer to its partner while a third socket is connected.
RelayConfinementWitness ==
  /\ last.op = "webrtc-offer" /\ last.h = 1
  /\ sockets = {1, 2, 3}
  /\ Len(emits) = 1 /\ emits[1].ev = "webrtc-offer"
  /\ has(partners, 1) /\ emits[1].to = partners[1]

\* C12: an answer naming a target that is not the sender's recorded partner
\* is not delivered (and the sender gets a status message instead).
AnswerOnlyToPartner ==
  last.op = "webrtc-answer"
  => /\ \A i \in 1..Len(emits) :
          emits[i].ev = "webrtc-answer"
          => has(partners, last.h) /\ partners[last.h] = emits[i].to
     /\ (~has(partners, last.h) \/ partners[last.h] # last.payload.to)
        => \E i \in 1..Len(emits) :
             emits[i].ev = "status" /\ emits[i].to = last.h

\* C13: a forwarded offer, answer or ICE candidate carries the sdp
\* (candidate) the sender submitted and, besides it, only from = the sender.
SignalingRoundTrip ==
  \A i \in 1..Len(emits) :
    /\ emits[i].ev \in {"webrtc-offer", "webrtc-answer"}
       => /\ last.op = emits[i].ev
          /\ emits[i].p = [from |-> last.h, sdp |-> last.payload.sdp]
    /\ emits[i].ev = "webrtc-ice-candidate"
       => /\ last.op = emits[i].ev
          /\ emits[i].p = [from |-> last.h,
                           candidate |-> last.payload.candidate]

\* The second candidate value was forwarded.
SignalingRoundTripWitness ==
  /\ last.op = "webrtc-ice-candidate"
  /\ last.payload.candidate = "candidate-b"
  /\ Len(emits) = 1
  /\ emits[1].p.candidate = "candidate-b"

\* The text t occurs in text.
ContainsText(text, t) ==
  \E k \in 1..(Len(text) - Len(t) + 1) : SubSeq(text, k, k + Len(t) - 1) = t

\* A message to the bot schedules one reply and nothing else.
MessageToBotSchedulesReply ==
  \A h \in SocketIds :
    (last' = Event("message", h) /\ has(partners, h) /\ partners[h] = BOT)
    => /\ emits' = <<>>
       /\ partners' = partners
       /\ \E t \in MoreTexts :
            replyTimers' = Append(replyTimers, [sock |-> h, text |-> t])

\* The reply of a timer that fires goes to its socket alone, once.
ReplyStep(mustDeliver) ==
  \A h \in SocketIds :
    (last' = Event("botReply", h) /\ Len(replyTimers) > 0)
    => /\ replyTimers' = Tail(replyTimers)
       /\ partners' = partners
       /\ \A i \in 1..Len(emits') : emits'[i].to = h
       /\ IF connected(h) \/ mustDeliver
            THEN /\ Len(emits') = 1
                 /\ emits'[1].ev = "message" /\ emits'[1].p.from = "bot"
                 /\ ContainsText(emits'[1].p.text, Head(replyTimers).text)
            ELSE emits' = <<>>

Delivered(h, t) ==
  /\ last = Event("botReply", h)
  /\ Len(emits) = 1 /\ emits[1].to = h
  /\ emits[1].ev = "message" /\ emits[1].p.from = "bot"
  /\ ContainsText(emits[1].p.text, t)

Dropped(h) == last = Event("botReply", h) /\ ~connected(h) /\ emits = <<>>

Pending(h, t) ==
  \E i \in 1..Len(replyTimers) : replyTimers[i] = [sock |-> h, text |-> t]

\* C14 as amended: a message(text) of h to the bot echoes nothing, leaves the
\* directory alone and schedules one reply; the reply, from = bot and
\* containing the text, is eventually delivered to h and to h alone, unless
\* h's socket has closed by the time the timer fires, and then it is dropped.
BotReplyUnlessClosed ==
  /\ [][MessageToBotSchedulesReply /\ ReplyStep(FALSE)]_vars
  /\ \A h \in SocketIds, t \in MoreTexts :
       Pending(h, t) ~> (Delivered(h, t) \/ Dropped(h))

\* The reply to "bye" has just been delivered.
BotReplyUnlessClosedWitness ==
  \E h \in SocketIds : Delivered(h, <<"bye">>) /\ connected(h)

\* C14 as stated: the reply is eventually delivered to h.
BotReplyAlwaysDelivered ==
  /\ [][MessageToBotSchedulesReply /\ ReplyStep(TRUE)]_vars
  /\ \A h \in SocketIds, t \in MoreTexts : Pending(h, t) ~> Delivered(h, t)

\* C19: (i) a find by h that pops a queue head p that is no longer live
\* discards p, sends h a status and 'retry', and leaves h neither enqueued nor
\* paired; (ii) a chat message by h whose entry is a human partner that is no
\* longer live sends h the status 'Partner disconnected.' and deletes h's
\* entry and the partner's, and a find by h right after is not rejected.
StaleReferenceRecovery ==
  [][/\ \A h \in SocketIds :
          (/\ last' = Event("find", h)
           /\ ~has(partners, h)
           /\ Len(waitingQueue) > 0 /\ ~connected(Head(waitingQueue)))
          => /\ waitingQueue' = Tail(waitingQueue)
             /\ ~includes(waitingQueue', Head(waitingQueue))
             /\ emits' = <<Status(h, "Candidate disconnected; retrying..."),
                           Retry(h)>>
             /\ ~includes(waitingQueue', h) /\ ~has(partners', h)
     /\ \A h \in SocketIds :
          (/\ last' = Event("message", h)
           /\ has(partners, h) /\ partners[h] # BOT
           /\ ~connected(partners[h]))
          => /\ emits' = <<Status(h, "Partner disconnected.")>>
             /\ ~has(partners', h) /\ ~has(partners', partners[h])
     /\ \A h \in SocketIds :
          (/\ last = Event("message", h)
           /\ emits = <<Status(h, "Partner disconnected.")>>
           /\ last' = Event("find", h))
          => /\ emits' # <<Status(h, "Already connected")>>
             /\ ~has(partners, h)]_vars

\* A find has just met a dead candidate and was told to retry.
StaleReferenceRecoveryWitness ==
  /\ last.op = "find"
  /\ emits = <<Status(last.h, "Candidate disconnected; retrying..."),
               Retry(last.h)>>
  /\ ~includes(waitingQueue, last.h) /\ ~has(partners, last.h)
====
